---------------------------- MODULE Spec2Model ----------------------------
(***************************************************************************)
(* A model of the GoXLR USB command layer (usb/src/goxlr.rs,               *)
(* usb/src/commands.rs, usb/src/buttonstate.rs) and of the daemon's        *)
(* client (client/src/client.rs).                                          *)
(*                                                                         *)
(* One connection object (GoXLR<T>) is modelled: from_device builds it,    *)
(* the facade methods use it.  Every facade method is one action; the      *)
(* behaviour of the device during the call (the outcome of every USB       *)
(* transfer, the bytes of every reply) is chosen by the action's \E.       *)
(* The vendor control transfers and interrupt reads the connection         *)
(* performs are appended to the history variable wire, in order.           *)
(*                                                                         *)
(* The build profile is part of the state: debug_assert! and the overflow  *)
(* check of `+= 1` are active in a debug build and absent in a release     *)
(* build.                                                                  *)
(***************************************************************************)
EXTENDS Integers, Sequences, FiniteSets, TLC

VARIABLES
    profile,            \* "debug" | "release": the build of the program
    phase,              \* "Unopened" | "Ready" | "Failed" | "Panicked"
    command_count,      \* GoXLR.command_count (u16)
    device_is_claimed,  \* GoXLR.device_is_claimed
    wire,               \* the transfers performed on the connection, in order:
                        \* the direction and request of each (Kind)
    calls,              \* number of facade calls made on the connection
    initial_count,      \* command_count when the facade calls began
    trips,              \* number of request_data calls made since then
    all_ok,             \* whether every one of them returned Ok
    last,               \* the call whose result the caller holds: its round
                        \* trips and its result (NoCall: none)
    client_device       \* Client.device: the status the client has cached

vars == <<profile, phase, command_count, device_is_claimed, wire, calls,
          initial_count, trips, all_ok, last, client_device>>

-----------------------------------------------------------------------------
(* Bounds of the model *)

\* facade calls made on one connection
MaxCalls == 2

\* largest numeric value of a channel, fader or input device
MaxSubId == 15

\* the devices attached to the host are at most
MaxDevices == 2

\* the bodies framed have 0 .. MaxBodyLen bytes
MaxBodyLen == 1024

-----------------------------------------------------------------------------
(* Bytes and little-endian integers (byteorder::LittleEndian) *)

\* u16 values are 0 .. U16 - 1
U16 == 2 ^ 16

\* u8 values are 0 .. Byte - 1
Byte == 2 ^ 8

Zeros(n) == [i \in 1..n |-> 0]

Fill(n, b) == [i \in 1..n |-> b]

Min(a, b) == IF a < b THEN a ELSE b

\* LittleEndian::write_u16
write_u16(v) == <<v % Byte, (v \div Byte) % Byte>>

\* LittleEndian::write_u32 (of a value below 2^31: every command id is)
write_u32(v) ==
    <<v % Byte, (v \div Byte) % Byte, (v \div (Byte * Byte)) % Byte,
      (v \div (Byte * Byte * Byte)) % Byte>>

\* LittleEndian::read_u16 of a 2-byte slice
read_u16(s) == s[1] + Byte * s[2]

\* LittleEndian::read_u32 of a 4-byte slice.  The model checker's integers
\* are 32-bit signed, so the u32 is kept as its two 16-bit halves:
\* the value is lo + 2^16 * hi.
read_u32(s) == [lo |-> s[1] + Byte * s[2], hi |-> s[3] + Byte * s[4]]

\* v & (1 << i) != 0 for a u32 v kept as halves and 0 <= i <= 31
BitAnd1Shl(v, i) ==
    IF i < 16 THEN (v.lo \div (2 ^ i)) % 2 = 1
    ELSE (v.hi \div (2 ^ (i - 16))) % 2 = 1

-----------------------------------------------------------------------------
(* commands.rs: the command catalog *)

\* SystemInfoCommand
SystemInfoCommands == {"FirmwareVersion", "SupportsDCPCategory"}

\* SystemInfoCommand::id
SystemInfoCommand_id(sub) ==
    CASE sub = "FirmwareVersion" -> 2
      [] sub = "SupportsDCPCategory" -> 1

\* a shift by one byte instead of 12 bits
Shl_ByOneByte(x, n) == x * (2 ^ 8)

\* x << n (no bit of a family opcode is shifted out of the u32)
Shl(x, n) == x * (2 ^ n)

\* a | b
RECURSIVE BitOr(_, _)
BitOr(a, b) ==
    IF a = 0 THEN b
    ELSE IF b = 0 THEN a
    ELSE (IF a % 2 = 1 \/ b % 2 = 1 THEN 1 ELSE 0)
         + 2 * BitOr(a \div 2, b \div 2)

\* Command::command_id.  A command is [family |-> name, sub |-> value]; sub is
\* the numeric value of the channel, fader or input device (`as u32`, id()),
\* the SystemInfoCommand for SystemInfo, and 0 for the families without one.
command_id(command) ==
    CASE command.family = "SystemInfo" -> SystemInfoCommand_id(command.sub)
      [] command.family = "SetChannelState" -> BitOr(Shl(2057, 12), command.sub)
      [] command.family = "SetChannelVolume" -> BitOr(Shl(2054, 12), command.sub)
      [] command.family = "SetFader" -> BitOr(Shl(2053, 12), command.sub)
      [] command.family = "SetRouting" -> BitOr(Shl(2052, 12), command.sub)
      [] command.family = "SetColourMap" -> BitOr(Shl(2051, 12), 0)
      [] command.family = "SetButtonStates" -> BitOr(Shl(2056, 12), 0)
      [] command.family = "SetFaderDisplayMode" -> BitOr(Shl(2068, 12), command.sub)
      [] command.family = "SetScribble" -> BitOr(Shl(2050, 12), command.sub)
      [] command.family = "GetButtonStates" -> BitOr(Shl(2048, 12), 0)
      [] command.family = "SetMicrophoneType" -> BitOr(Shl(2059, 12), 0)

-----------------------------------------------------------------------------
(* buttonstate.rs *)

\* enum Buttons: each logical button with its discriminant (`button as u8`)
ButtonBit ==
    [Fader1Mute |-> 4, Fader2Mute |-> 9, Fader3Mute |-> 14, Fader4Mute |-> 19,
     Bleep |-> 22, MicrophoneMute |-> 23,
     EffectSelect1 |-> 0, EffectSelect2 |-> 5, EffectSelect3 |-> 11,
     EffectSelect4 |-> 15, EffectSelect5 |-> 1, EffectSelect6 |-> 6,
     EffectFx |-> 21, EffectMegaphone |-> 20, EffectRobot |-> 10,
     EffectHardTune |-> 16,
     SamplerSelectA |-> 2, SamplerSelectB |-> 7, SamplerSelectC |-> 12,
     SamplerTopLeft |-> 3, SamplerTopRight |-> 8, SamplerBottomLeft |-> 17,
     SamplerBottomRight |-> 13, SamplerClear |-> 18]

\* EnumSet::<Buttons>::all()
Buttons == DOMAIN ButtonBit

\* enum ButtonStates, as u8
ButtonStates ==
    [Colour1 |-> 1, Colour2 |-> 0, DimmedColour1 |-> 2, DimmedColour2 |-> 4,
     Flashing |-> 3]

-----------------------------------------------------------------------------
(* Results.  Every Result<_, rusb::Error> of the code is one of              *)
(*   Ok(value)   the call returned a value                                   *)
(*   Err(e)      the call returned the transport error e                     *)
(*   Panic(why)  the call did not return: the thread panicked                *)

Ok(v) == [kind |-> "Ok", err |-> "", body |-> v]

Err(e) == [kind |-> "Err", err |-> e, body |-> <<>>]

Panic(why) == [kind |-> "Panic", err |-> why, body |-> <<>>]

\* the rusb::Error values the transfers of the model fail with
UsbErrors == {"Timeout", "Pipe"}

\* the outcome of one control transfer on the bus
IoResults == {"Ok"} \cup UsbErrors

\* a transfer performed on the connection: a control transfer IN or OUT
\* with its vendor request and the length of its buffer, or the interrupt
\* read (INT) of 6 bytes on endpoint 0x81 (129)
Xfer(dir, request, len) == [dir |-> dir, request |-> request, len |-> len]

\* what wire keeps of a transfer
Kind(x) == [dir |-> x.dir, request |-> x.request]

Kinds(transfers) == [k \in 1..Len(transfers) |-> Kind(transfers[k])]

-----------------------------------------------------------------------------
(* goxlr.rs: the transfer primitives *)

\* GoXLR::read_control(Vendor, request, 0, 0, length): `io` is the outcome of
\* the transfer, `data` the bytes the device delivers; the buffer of `length`
\* bytes is truncated to the bytes received.
read_control(request, length, io, data) ==
    IF io = "Ok"
    THEN Ok(SubSeq(data, 1, Min(Len(data), length)))
    ELSE Err(io)

\* GoXLR::write_control(Vendor, request, 0, 0, data)
write_control(request, data, io) ==
    IF io = "Ok" THEN Ok(<<>>) ELSE Err(io)

\* GoXLR::await_interrupt: whether the interrupt read returned Ok(_)
await_interrupt(io) == io = "Ok"

-----------------------------------------------------------------------------
(* The device during one round trip *)

\* What the device does during one round trip:
\*   write, int, read   the outcomes of the OUT transfer, the interrupt read
\*                      and the IN transfer
\*   body               the body of the reply it sends
\*   lenOff             declared body length minus the length of body
\*   echoOff            echoed sequence number minus the one of the request
\*   cut                the number of bytes it delivers at most
\* The reply is built from the request frame the device received.
DeviceReply(dev, frame) ==
    LET seq == (read_u16(SubSeq(frame, 7, 8)) + dev.echoOff) % U16
        full == SubSeq(frame, 1, 4)
                \o write_u16((Len(dev.body) + dev.lenOff) % U16)
                \o write_u16(seq) \o Zeros(8) \o dev.body
    IN  SubSeq(full, 1, Min(Len(full), dev.cut))

-----------------------------------------------------------------------------
(* goxlr.rs: request_data *)

\* self.command_count += 1 on a u16: whether the addition overflows
CountOverflows(cc) == cc + 1 >= U16

\* a counter that skips 0 when it wraps
NextCount_SkipsZero(cc) == IF cc + 1 >= U16 THEN 1 ELSE cc + 1

\* self.command_count += 1 where it does not panic (release: wrapping)
NextCount(cc) == (cc + 1) % U16

\* a frame whose header holds the sequence number before the body length
full_request_IndexFirst(command, body, command_index) ==
    write_u32(command_id(command)) \o write_u16(command_index)
    \o write_u16(Len(body) % U16) \o Zeros(8) \o body

\* the request frame: the 16-byte header followed by the body
full_request(command, body, command_index) ==
    write_u32(command_id(command)) \o write_u16(Len(body) % U16)
    \o write_u16(command_index) \o Zeros(8) \o body

\* debug_assert!(response.len() == response_length as usize);
\* debug_assert!(response_command_index == command_index);
\* whether the two assertions, compiled in, pass
DebugAssertsPass(response, response_length, echoed_index, command_index) ==
    /\ Len(response) = response_length
    /\ echoed_index = command_index

\* a debug build compiles debug_assert! and the overflow check in
ChecksCompiledIn(prof) == prof = "debug"

\* The decode of the reply buffer `buf` (what follows the IN read).
DecodeReply(prof, buf, command_index) ==
    IF Len(buf) < 16
    THEN Panic("split_off")      \* response_header.split_off(16)
    ELSE
      LET response_header == SubSeq(buf, 1, 16)
          response == SubSeq(buf, 17, Len(buf))
          response_length == read_u16(SubSeq(response_header, 5, 6))
          response_command_index == read_u16(SubSeq(response_header, 7, 8))
      IN  IF /\ ChecksCompiledIn(prof)
             /\ ~DebugAssertsPass(response, response_length,
                                  response_command_index, command_index)
          THEN Panic("debug_assert")
          ELSE Ok(response)

\* The two header fields request_data reads from a buffer of 16 bytes or
\* more: response_length and response_command_index.
DecodeHeader(buf) ==
    [length |-> read_u16(SubSeq(buf, 5, 6)),
     index |-> read_u16(SubSeq(buf, 7, 8))]

\* a request_data that gives up when the interrupt wait times out
AfterWrite_StopsOnTimeout(prof, dev, frame, command_index) ==
    LET intr == Xfer("INT", 129, 6)
        r == read_control(3, 1040, dev.read, DeviceReply(dev, frame))
        in == Xfer("IN", 3, 1040)
    IN  IF ~await_interrupt(dev.int)
        THEN [transfers |-> <<intr>>, int |-> dev.int, read |-> "None",
              reply |-> <<>>, outcome |-> Err(dev.int)]
        ELSE IF r.kind = "Err"
        THEN [transfers |-> <<intr, in>>, int |-> dev.int, read |-> dev.read,
              reply |-> <<>>, outcome |-> Err(r.err)]
        ELSE [transfers |-> <<intr, in>>, int |-> dev.int, read |-> dev.read,
              reply |-> r.body,
              outcome |-> DecodeReply(prof, r.body, command_index)]

\* request_data after the OUT transfer succeeded: the interrupt read, whose
\* value is dropped, then the IN read and the decode of the reply.
AfterWrite(prof, dev, frame, command_index) ==
    LET ready == await_interrupt(dev.int)
        intr == Xfer("INT", 129, 6)
        r == read_control(3, 1040, dev.read, DeviceReply(dev, frame))
        in == Xfer("IN", 3, 1040)
    IN  IF r.kind = "Err"
        THEN [transfers |-> <<intr, in>>, int |-> dev.int, read |-> dev.read,
              reply |-> <<>>, outcome |-> Err(r.err)]
        ELSE [transfers |-> <<intr, in>>, int |-> dev.int, read |-> dev.read,
              reply |-> r.body,
              outcome |-> DecodeReply(prof, r.body, command_index)]

\* GoXLR::request_data(command, body) on a connection whose counter is cc,
\* against a device that behaves as dev.  The record holds
\*   count      command_count after the call
\*   index      the sequence number of the request (command_index)
\*   frame      the request frame handed to the OUT transfer (<<>>: none)
\*   transfers  the transfers performed, in order
\*   write, int, read   the outcome of each transfer ("None": not attempted)
\*   reply      the buffer the IN read returned
\*   outcome    what the caller gets
request_data(cc, prof, command, body, dev) ==
    IF ChecksCompiledIn(prof) /\ CountOverflows(cc)
    THEN [count |-> cc, index |-> cc, frame |-> <<>>, transfers |-> <<>>,
          write |-> "None", int |-> "None", read |-> "None", reply |-> <<>>,
          outcome |-> Panic("overflow")]
    ELSE
      LET command_index == NextCount(cc)
          frame == full_request(command, body, command_index)
          out == Xfer("OUT", 2, Len(frame))
          w == write_control(2, frame, dev.write)
          rest == AfterWrite(prof, dev, frame, command_index)
          base == [count |-> command_index, index |-> command_index,
                   frame |-> frame, write |-> dev.write]
      IN  IF w.kind = "Err"
          THEN base @@ [transfers |-> <<out>>, int |-> "None",
                        read |-> "None", reply |-> <<>>, outcome |-> Err(w.err)]
          ELSE base @@ [transfers |-> <<out>> \o rest.transfers,
                        int |-> rest.int, read |-> rest.read,
                        reply |-> rest.reply, outcome |-> rest.outcome]

-----------------------------------------------------------------------------
(* goxlr.rs: the facade.  A call record holds                                *)
(*   op      the method                                                      *)
(*   args    its arguments                                                   *)
(*   rts     the round trips it made (request_data records), in order        *)
(*   count   command_count after the call                                    *)
(*   result  what the method returns to its caller                           *)

\* `self.request_data(..)?; Ok(value)`
Try(outcome, value) == IF outcome.kind = "Ok" THEN Ok(value) ELSE outcome

\* `self.request_data(..); Ok(value)`: the Result is dropped
Dropped(outcome, value) ==
    IF outcome.kind = "Panic" THEN outcome ELSE Ok(value)

RECURSIVE TransfersOf(_)
TransfersOf(rts) ==
    IF rts = <<>> THEN <<>>
    ELSE rts[1].transfers \o TransfersOf(Tail(rts))

Call(op, args, rts, result) ==
    [op |-> op, args |-> args, rts |-> rts, transfers |-> TransfersOf(rts),
     count |-> rts[Len(rts)].count, result |-> result]

set_fader(cc, prof, fader, channel, dev) ==
    LET rt == request_data(cc, prof, [family |-> "SetFader", sub |-> fader],
                           <<channel, 0, 0, 0>>, dev)
    IN  Call("set_fader", <<fader, channel>>, <<rt>>, Try(rt.outcome, <<>>))

set_volume(cc, prof, channel, volume, dev) ==
    LET rt == request_data(cc, prof,
                           [family |-> "SetChannelVolume", sub |-> channel],
                           <<volume>>, dev)
    IN  Call("set_volume", <<channel, volume>>, <<rt>>, Try(rt.outcome, <<>>))

set_channel_state(cc, prof, channel, state, dev) ==
    LET rt == request_data(cc, prof,
                           [family |-> "SetChannelState", sub |-> channel],
                           <<state>>, dev)
    IN  Call("set_channel_state", <<channel, state>>, <<rt>>, Try(rt.outcome, <<>>))

set_button_states(cc, prof, data, dev) ==
    LET rt == request_data(cc, prof, [family |-> "SetButtonStates", sub |-> 0],
                           [i \in 1..24 |-> ButtonStates[data[i]]], dev)
    IN  Call("set_button_states", <<data>>, <<rt>>, Try(rt.outcome, <<>>))

set_button_colours(cc, prof, data, dev) ==
    LET rt == request_data(cc, prof, [family |-> "SetColourMap", sub |-> 0],
                           data, dev)
    IN  Call("set_button_colours", <<data>>, <<rt>>, Dropped(rt.outcome, <<>>))

set_fader_display_mode(cc, prof, fader, gradient, meter, dev) ==
    LET gradientByte == IF gradient THEN 1 ELSE 0
        meterByte == IF meter THEN 1 ELSE 0
        rt == request_data(cc, prof,
                           [family |-> "SetFaderDisplayMode", sub |-> fader],
                           <<gradientByte, meterByte>>, dev)
    IN  Call("set_fader_display_mode", <<fader, gradient, meter>>, <<rt>>,
             Dropped(rt.outcome, <<>>))

set_fader_scribble(cc, prof, fader, data, dev) ==
    LET rt == request_data(cc, prof, [family |-> "SetScribble", sub |-> fader],
                           data, dev)
    IN  Call("set_fader_scribble", <<fader, data>>, <<rt>>, Dropped(rt.outcome, <<>>))

set_routing(cc, prof, input_device, data, dev) ==
    LET rt == request_data(cc, prof,
                           [family |-> "SetRouting", sub |-> input_device],
                           data, dev)
    IN  Call("set_routing", <<input_device, data>>, <<rt>>, Try(rt.outcome, <<>>))

\* let mut data: [u8; 8] = [0; 8];
MicResetBody == Zeros(8)

\* data[0] = microphone_type.id(); data[6] = gain;
MicConfigBody(microphone_type, gain) ==
    [MicResetBody EXCEPT ![1] = microphone_type, ![7] = gain]

\* The requests of set_microphone_type, in the order it issues them: the
\* first one's Result is dropped, the second one's is returned.
MicRequests(microphone_type, gain) ==
    <<MicResetBody, MicConfigBody(microphone_type, gain)>>

set_microphone_type(cc, prof, microphone_type, gain, dev1, dev2) ==
    LET command == [family |-> "SetMicrophoneType", sub |-> 0]
        bodies == MicRequests(microphone_type, gain)
        rt1 == request_data(cc, prof, command, bodies[1], dev1)
        rt2 == request_data(rt1.count, prof, command, bodies[2], dev2)
    IN  IF rt1.outcome.kind = "Panic"
        THEN Call("set_microphone_type", <<microphone_type, gain>>, <<rt1>>,
                  rt1.outcome)
        ELSE Call("set_microphone_type", <<microphone_type, gain>>, <<rt1, rt2>>,
                  Try(rt2.outcome, <<>>))

\* mixer levels taken right after the bitmask
MixerIndices_AfterMask == <<4, 5, 6, 7>>

\* mixers[0] = result[8]; .. mixers[3] = result[11];  (0-based indices)
MixerIndices == <<8, 9, 10, 11>>

\* a decode that tests the bit above each button's position
PressedButtons_OffByOne(button_states) ==
    {button \in Buttons : BitAnd1Shl(button_states, ButtonBit[button] + 1)}

\* for button in EnumSet::<Buttons>::all() {
\*     if button_states & (1 << button as u8) != 0 { pressed.insert(button); } }
PressedButtons(button_states) ==
    {button \in Buttons : BitAnd1Shl(button_states, ButtonBit[button])}

\* the decode of get_button_states: slicing result[0..4] and indexing
\* result[8..11] panic when the body is too short
DecodeButtonStates(result) ==
    IF Len(result) < 4 THEN Panic("slice")
    ELSE IF \E k \in 1..4 : MixerIndices[k] >= Len(result) THEN Panic("index")
    ELSE Ok([pressed |-> PressedButtons(read_u32(SubSeq(result, 1, 4))),
             mixers |-> [k \in 1..4 |-> result[MixerIndices[k] + 1]]])

get_button_states(cc, prof, dev) ==
    LET rt == request_data(cc, prof, [family |-> "GetButtonStates", sub |-> 0],
                           <<>>, dev)
    IN  Call("get_button_states", <<>>, <<rt>>,
             IF rt.outcome.kind = "Ok"
             THEN DecodeButtonStates(rt.outcome.body)
             ELSE rt.outcome)

-----------------------------------------------------------------------------
(* goxlr.rs: from_device *)

\* the conversion of a rusb::Error into a ConnectError by `?`
ConnectErrorFrom(e) ==
    CASE e = "Timeout" -> "UsbError(Timeout)"
      [] e = "Pipe" -> "UsbError(Pipe)"

\* what handle.read_languages(timeout) can return: an error, or a list
LanguageReads == [kind : {"Err"}, err : UsbErrors, langs : {<<>>}]
                 \cup [kind : {"Ok"}, err : {""}, langs : {<<>>, <<1033>>}]

\* a handshake that writes before it probes
Handshake_WriteFirst ==
    <<[dir |-> "OUT", request |-> 1, len |-> 0],
      [dir |-> "IN", request |-> 0, len |-> 24],
      [dir |-> "IN", request |-> 3, len |-> 1040]>>

\* The three transfers of the bring-up handshake, in the order from_device
\* performs them.
Handshake == <<Xfer("IN", 0, 24), Xfer("OUT", 1, 0), Xfer("IN", 3, 1040)>>

\* a handshake that goes through its three transfers whatever they return
RunHandshake_IgnoresErrors(io) == [transfers |-> Handshake, io |-> "Ok"]

\* The handshake against a device whose k-th transfer ends as io[k]: the
\* transfers performed and the first error, "Ok" when there is none.
RunHandshake(io) ==
    LET failed == {k \in 1..Len(Handshake) : io[k] /= "Ok"}
        first == CHOOSE k \in failed : \A j \in failed : k <= j
    IN  IF failed = {}
        THEN [transfers |-> Handshake, io |-> "Ok"]
        ELSE [transfers |-> SubSeq(Handshake, 1, first), io |-> io[first]]

\* a bring-up that never looks at the language list
from_device_SkipsLanguages(languages, claim, io) ==
    LET h == RunHandshake(io)
    IN  [transfers |-> h.transfers, claimed |-> claim,
         result |-> IF h.io = "Ok" THEN Ok(<<>>)
                    ELSE Err(ConnectErrorFrom(h.io))]

\* a bring-up that gives up when the interface cannot be claimed
from_device_ClaimRequired(languages, claim, io) ==
    IF languages.kind = "Err"
    THEN [transfers |-> <<>>, claimed |-> FALSE,
          result |-> Err(ConnectErrorFrom(languages.err))]
    ELSE IF Len(languages.langs) = 0
    THEN [transfers |-> <<>>, claimed |-> FALSE,
          result |-> Err("DeviceNotGoXLR")]
    ELSE IF ~claim
    THEN [transfers |-> <<>>, claimed |-> FALSE,
          result |-> Err("DeviceNotClaimed")]
    ELSE
      LET h == RunHandshake(io)
      IN  [transfers |-> h.transfers, claimed |-> claim,
           result |-> IF h.io = "Ok" THEN Ok(<<>>)
                      ELSE Err(ConnectErrorFrom(h.io))]

\* GoXLR::from_device: `languages` is what read_languages returns, `claim`
\* whether claim_interface(0) succeeds, io the outcomes of the handshake
\* transfers.
from_device(languages, claim, io) ==
    IF languages.kind = "Err"
    THEN [transfers |-> <<>>, claimed |-> FALSE,
          result |-> Err(ConnectErrorFrom(languages.err))]
    ELSE IF Len(languages.langs) = 0
    THEN [transfers |-> <<>>, claimed |-> FALSE,
          result |-> Err("DeviceNotGoXLR")]
    ELSE
      LET h == RunHandshake(io)
      IN  [transfers |-> h.transfers, claimed |-> claim,
           result |-> IF h.io = "Ok" THEN Ok(<<>>)
                      ELSE Err(ConnectErrorFrom(h.io))]

-----------------------------------------------------------------------------
(* goxlr.rs: open *)

VID_GOXLR == 4640

PID_GOXLR_MINI == 36836

PID_GOXLR_FULL == 36832

\* An attached device, as open() sees it: whether its descriptor can be
\* read, the ids the descriptor holds, and what device.open() returns.  A
\* field open() never reads for that device takes one value only.
DeviceKinds ==
    [desc : {"Err"}, vid : {0}, pid : {0}, open : {"Ok"}]
    \cup [desc : {"Ok"}, vid : {VID_GOXLR},
          pid : {PID_GOXLR_FULL, PID_GOXLR_MINI}, open : IoResults]
    \cup [desc : {"Ok"}, vid : {VID_GOXLR}, pid : {PID_GOXLR_FULL + 1},
          open : {"Ok"}]
    \cup [desc : {"Ok"}, vid : {VID_GOXLR + 1}, pid : {PID_GOXLR_FULL},
          open : {"Ok"}]

\* a device of the GoXLR's vendor, whatever its product
Matches_AnyProduct(device) ==
    device.desc = "Ok" /\ device.vid = VID_GOXLR

\* the test open() applies to a device of the enumeration
Matches(device) ==
    /\ device.desc = "Ok"
    /\ device.vid = VID_GOXLR
    /\ (device.pid = PID_GOXLR_FULL \/ device.pid = PID_GOXLR_MINI)

\* a loop that gives up at the first device it cannot open
RECURSIVE OpenScan_StopsAtFailure(_, _, _, _, _, _, _)
OpenScan_StopsAtFailure(devices, i, error, opened, languages, claim, io) ==
    IF i > Len(devices)
    THEN [opened |-> opened, transfers |-> <<>>, claimed |-> FALSE,
          result |-> Err(error)]
    ELSE IF ~Matches(devices[i])
    THEN OpenScan_StopsAtFailure(devices, i + 1, error, opened, languages,
                                 claim, io)
    ELSE IF devices[i].open = "Ok"
    THEN [opened |-> Append(opened, i)] @@ from_device(languages, claim, io)
    ELSE [opened |-> Append(opened, i), transfers |-> <<>>,
          claimed |-> FALSE,
          result |-> Err(ConnectErrorFrom(devices[i].open))]

\* The loop of open() from the i-th device on: `error` is the error the
\* loop holds, `opened` the devices device.open() was called on so far.
RECURSIVE OpenScan(_, _, _, _, _, _, _)
OpenScan(devices, i, error, opened, languages, claim, io) ==
    IF i > Len(devices)
    THEN [opened |-> opened, transfers |-> <<>>, claimed |-> FALSE,
          result |-> Err(error)]
    ELSE IF ~Matches(devices[i])
    THEN OpenScan(devices, i + 1, error, opened, languages, claim, io)
    ELSE IF devices[i].open = "Ok"
    THEN [opened |-> Append(opened, i)] @@ from_device(languages, claim, io)
    ELSE OpenScan(devices, i + 1, ConnectErrorFrom(devices[i].open),
                  Append(opened, i), languages, claim, io)

\* GoXLR::open: `enum` is what rusb::devices() returns, `devices` the
\* devices of the enumeration; languages, claim and io are the behaviour
\* of the device that opens, during from_device.
open(enum, devices, languages, claim, io) ==
    IF enum /= "Ok"
    THEN [opened |-> <<>>, transfers |-> <<>>, claimed |-> FALSE,
          result |-> Err(ConnectErrorFrom(enum))]
    ELSE OpenScan(devices, 1, "DeviceNotFound", <<>>, languages, claim, io)

-----------------------------------------------------------------------------
(* client.rs: the client of the daemon *)

\* DeviceStatus::default(), what Client::new caches
DefaultStatus == "default"

\* the values of DeviceStatus the daemon may report
Statuses == {DefaultStatus, "mini", "full"}

\* What socket.read() gives: the stream ended, a message that does not
\* parse, or a DaemonResponse.
SocketReads ==
    [kind : {"Closed", "Unparsed"}, status : {DefaultStatus}, error : {""}]
    \cup [kind : {"OkSome"}, status : Statuses, error : {""}]
    \cup [kind : {"OkNone"}, status : {DefaultStatus}, error : {""}]
    \cup [kind : {"Error"}, status : {DefaultStatus},
          error : {"no device", "bad value"}]

\* a client that takes the status of every Ok response, Ok(None) included
send_ClearsOnNone(device, command, sent, response) ==
    IF ~sent
    THEN [device |-> device, socket |-> <<"send">>,
          result |-> Err("Failed to send a command to the GoXLR daemon process")]
    ELSE IF response.kind = "Closed"
    THEN [device |-> device, socket |-> <<"send", "read">>,
          result |-> Err("Failed to retrieve the command result from the GoXLR daemon process")]
    ELSE IF response.kind = "Unparsed"
    THEN [device |-> device, socket |-> <<"send", "read">>,
          result |-> Err("Failed to parse the command result from the GoXLR daemon process")]
    ELSE IF response.kind \in {"OkSome", "OkNone"}
    THEN [device |-> response.status, socket |-> <<"send", "read">>,
          result |-> Ok(<<>>)]
    ELSE [device |-> device, socket |-> <<"send", "read">>,
          result |-> Err(response.error)]

\* Client::send(command) on a client that caches `device`: `sent` is
\* whether socket.send succeeds, `response` what socket.read gives.  The
\* record holds the status cached after the call, the socket operations
\* performed, and what send returns.
send(device, command, sent, response) ==
    IF ~sent
    THEN [device |-> device, socket |-> <<"send">>,
          result |-> Err("Failed to send a command to the GoXLR daemon process")]
    ELSE IF response.kind = "Closed"
    THEN [device |-> device, socket |-> <<"send", "read">>,
          result |-> Err("Failed to retrieve the command result from the GoXLR daemon process")]
    ELSE IF response.kind = "Unparsed"
    THEN [device |-> device, socket |-> <<"send", "read">>,
          result |-> Err("Failed to parse the command result from the GoXLR daemon process")]
    ELSE IF response.kind = "OkSome"
    THEN [device |-> response.status, socket |-> <<"send", "read">>,
          result |-> Ok(<<>>)]
    ELSE IF response.kind = "OkNone"
    THEN [device |-> device, socket |-> <<"send", "read">>,
          result |-> Ok(<<>>)]
    ELSE [device |-> device, socket |-> <<"send", "read">>,
          result |-> Err(response.error)]

\* Client::device
Client_device(cached) == cached

-----------------------------------------------------------------------------
(* The inputs of the model *)

\* the outcome of the interrupt read
IntResults == {"Ok", "Timeout"}

\* The device's behaviours during one round trip.  A field the round trip
\* never reads (the reply when the IN read fails, ..) takes one value only.
WriteFails ==
    [write : UsbErrors, int : {"Ok"}, read : {"Ok"}, body : {<<>>},
     lenOff : {0}, echoOff : {0}, cut : {1040}]

ReadFails ==
    [write : {"Ok"}, int : IntResults, read : UsbErrors, body : {<<>>},
     lenOff : {0}, echoOff : {0}, cut : {1040}]

\* a reply arrives: its header may declare one byte less than the body
\* holds (65535 for an empty body) and may echo the next sequence number
Replies(bodies) ==
    [write : {"Ok"}, int : IntResults, read : {"Ok"}, body : bodies,
     lenOff : {-1, 0}, echoOff : {0, 1}, cut : {1040}]

\* the device delivers only the first 6 bytes of the reply
ShortReplies ==
    [write : {"Ok"}, int : IntResults, read : {"Ok"}, body : {<<>>},
     lenOff : {0}, echoOff : {0}, cut : {6}]

\* a reply that matches the request, after the interrupt signalled it
GoodReplies(bodies) ==
    [write : {"Ok"}, int : {"Ok"}, read : {"Ok"}, body : bodies,
     lenOff : {0}, echoOff : {0}, cut : {1040}]

\* the reply body of a set command is empty
SetDevs == WriteFails \cup ReadFails \cup Replies({<<>>}) \cup ShortReplies

\* button-state bodies: a press bitmask with one bit set (every position
\* 0..31), none, or all; then four bytes; then the four mixer bytes
MaskBytes ==
    {[k \in 1..4 |-> IF k = (i \div 8) + 1 THEN 2 ^ (i % 8) ELSE 0] : i \in 0..31}
    \cup {Fill(4, 0), Fill(4, 255)}

ButtonBodies ==
    {m \o <<11, 12, 13, 14>> \o <<21, 22, 23, 24>> : m \in MaskBytes}

\* a body of 8 bytes (bitmask, then four bytes), one of 2 bytes, an empty one
ShortButtonBodies == {<<1, 0, 0, 0>> \o <<21, 22, 23, 24>>, <<3, 0>>, <<>>}

ButtonDevs ==
    WriteFails \cup ReadFails \cup ShortReplies
    \cup Replies({<<129, 0, 128, 255>> \o <<11, 12, 13, 14>> \o <<21, 22, 23, 24>>,
                  <<1, 0, 0, 0>> \o <<21, 22, 23, 24>>})
    \cup GoodReplies(ButtonBodies \cup ShortButtonBodies)

\* values of FaderName, ChannelName, InputDevice::id, ChannelState::id and
\* MicrophoneType::id used as inputs
Faders == {0, 3}

Channels == {0, 2}

Volumes == {255}

ChannelStateIds == {1}

InputDevices == {5}

MicrophoneTypes == {1, 2}

Gains == {40}

ButtonStateMaps ==
    {[i \in 1..24 |-> "Colour2"],
     [i \in 1..24 |-> IF i = 5 THEN "Flashing" ELSE "DimmedColour2"]}

ColourMaps == {Fill(328, 7)}

Scribbles == {Fill(1024, 255)}

RoutingRows == {Fill(22, 32)}

-----------------------------------------------------------------------------
(* The state machine *)

NoCall ==
    [op |-> "none", args |-> <<>>, rts |-> <<>>, transfers |-> <<>>,
     count |-> 0,
     result |-> Ok(<<>>)]

Init ==
    /\ profile \in {"debug", "release"}
    /\ phase = "Unopened"
    /\ command_count = 0
    /\ device_is_claimed = FALSE
    /\ wire = <<>>
    /\ calls = 0
    /\ initial_count = 0
    /\ trips = 0
    /\ all_ok = TRUE
    /\ last = NoCall
    /\ client_device = DefaultStatus

\* GoXLR::from_device on an opened handle
FromDevice ==
    /\ phase = "Unopened"
    /\ \E languages \in LanguageReads, claim \in BOOLEAN,
          io \in [1..3 -> IoResults] :
         LET r == from_device(languages, claim, io)
         IN  /\ phase' = IF r.result.kind = "Ok" THEN "Ready" ELSE "Failed"
             /\ device_is_claimed' = r.claimed
             /\ wire' = Kinds(r.transfers)
             /\ last' = [op |-> "from_device",
                         args |-> [languages |-> languages, claim |-> claim,
                                   io |-> io],
                         rts |-> <<>>,
                         transfers |-> r.transfers, count |-> 0,
                         result |-> r.result]
             /\ command_count' = 0
             /\ UNCHANGED <<client_device, profile, calls, initial_count, trips, all_ok>>

\* The caller takes the result of the call; the connection is idle again.
TakeResult ==
    /\ last /= NoCall
    /\ last' = NoCall
    /\ UNCHANGED <<client_device, profile, phase, command_count, device_is_claimed, wire,
                   calls, initial_count, trips, all_ok>>

\* a facade method may be called on a connection from_device returned
CanCall == phase = "Ready" /\ last = NoCall /\ calls < MaxCalls

\* the effect of the facade call `call` on the connection
Do(call) ==
    /\ command_count' = call.count
    /\ wire' = wire \o Kinds(call.transfers)
    /\ last' = call
    /\ phase' = IF call.result.kind = "Panic" THEN "Panicked" ELSE "Ready"
    /\ calls' = calls + 1
    /\ trips' = trips + Len(call.rts)
    /\ all_ok' = (all_ok /\ \A k \in 1..Len(call.rts) :
                                call.rts[k].outcome.kind = "Ok")
    /\ UNCHANGED <<client_device, profile, device_is_claimed, initial_count>>

SetFader ==
    /\ CanCall
    /\ \E fader \in Faders, channel \in Channels, dev \in SetDevs :
         Do(set_fader(command_count, profile, fader, channel, dev))

SetVolume ==
    /\ CanCall
    /\ \E channel \in Channels, volume \in Volumes, dev \in SetDevs :
         Do(set_volume(command_count, profile, channel, volume, dev))

SetChannelState ==
    /\ CanCall
    /\ \E channel \in Channels, state \in ChannelStateIds, dev \in SetDevs :
         Do(set_channel_state(command_count, profile, channel, state, dev))

SetButtonStates ==
    /\ CanCall
    /\ \E data \in ButtonStateMaps, dev \in SetDevs :
         Do(set_button_states(command_count, profile, data, dev))

SetButtonColours ==
    /\ CanCall
    /\ \E data \in ColourMaps, dev \in SetDevs :
         Do(set_button_colours(command_count, profile, data, dev))

SetFaderDisplayMode ==
    /\ CanCall
    /\ \E fader \in Faders, gradient \in BOOLEAN, meter \in {TRUE},
          dev \in SetDevs :
         Do(set_fader_display_mode(command_count, profile, fader, gradient,
                                   meter, dev))

SetFaderScribble ==
    /\ CanCall
    /\ \E fader \in Faders, data \in Scribbles, dev \in SetDevs :
         Do(set_fader_scribble(command_count, profile, fader, data, dev))

SetRouting ==
    /\ CanCall
    /\ \E input_device \in InputDevices, data \in RoutingRows, dev \in SetDevs :
         Do(set_routing(command_count, profile, input_device, data, dev))

SetMicrophoneType ==
    /\ CanCall
    /\ \E microphone_type \in MicrophoneTypes, gain \in Gains,
          dev1 \in SetDevs, dev2 \in SetDevs :
         Do(set_microphone_type(command_count, profile, microphone_type, gain,
                                dev1, dev2))

GetButtonStates ==
    /\ CanCall
    /\ \E dev \in ButtonDevs :
         Do(get_button_states(command_count, profile, dev))

Facade ==
    \/ SetFader
    \/ SetVolume
    \/ SetChannelState
    \/ SetButtonStates
    \/ SetButtonColours
    \/ SetFaderDisplayMode
    \/ SetFaderScribble
    \/ SetRouting
    \/ SetMicrophoneType
    \/ GetButtonStates

Next == FromDevice \/ Facade \/ TakeResult

Spec == Init /\ [][Next]_vars

-----------------------------------------------------------------------------
(* A connection late in its life: from_device returned it, and the round     *)
(* trips made since have brought command_count next to the top of the u16.   *)

InitWrap ==
    /\ profile \in {"debug", "release"}
    /\ phase = "Ready"
    /\ command_count \in {U16 - 2, U16 - 1}
    /\ initial_count = command_count
    /\ device_is_claimed \in BOOLEAN
    /\ wire = Kinds(Handshake)
    /\ calls = 0
    /\ trips = 0
    /\ all_ok = TRUE
    /\ last = NoCall
    /\ client_device = DefaultStatus

NextWrap == Facade \/ TakeResult

SpecWrap == InitWrap /\ [][NextWrap]_vars

-----------------------------------------------------------------------------
(* The command catalog on its own: command_id is looked up for a command.    *)

\* the families whose command carries a channel, fader or input device
SubFamilies ==
    {"SetChannelState", "SetChannelVolume", "SetFader", "SetRouting",
     "SetFaderDisplayMode", "SetScribble"}

\* the families whose command carries nothing
PlainFamilies ==
    {"SetButtonStates", "SetMicrophoneType", "SetColourMap", "GetButtonStates"}

\* the values of enum Command
Commands ==
    [family : {"SystemInfo"}, sub : SystemInfoCommands]
    \cup [family : SubFamilies, sub : 0..MaxSubId]
    \cup [family : PlainFamilies, sub : {0}]

\* Command::command_id is called on `command`
CommandId ==
    /\ last = NoCall
    /\ \E command \in Commands :
         last' = [op |-> "command_id", args |-> command, rts |-> <<>>,
                  transfers |-> <<>>, count |-> command_count,
                  result |-> Ok(command_id(command))]
    /\ UNCHANGED <<client_device, profile, phase, command_count, device_is_claimed, wire,
                   calls, initial_count, trips, all_ok>>

NextCatalog == CommandId \/ TakeResult

SpecCatalog == Init /\ [][NextCatalog]_vars

-----------------------------------------------------------------------------
(* Discovery: GoXLR::open looks for the device among those attached. *)

\* what rusb::devices() can give: an error, or the attached devices
Enumerations ==
    [enum : UsbErrors, devices : {<<>>}]
    \cup [enum : {"Ok"},
          devices : UNION {[1..n -> DeviceKinds] : n \in 0..MaxDevices}]

\* GoXLR::open
Open ==
    /\ phase = "Unopened"
    /\ last = NoCall
    /\ \E e \in Enumerations, languages \in LanguageReads, claim \in BOOLEAN,
          io \in [1..3 -> IoResults] :
         LET r == open(e.enum, e.devices, languages, claim, io)
         IN  /\ phase' = IF r.result.kind = "Ok" THEN "Ready" ELSE "Failed"
             /\ device_is_claimed' = r.claimed
             /\ wire' = Kinds(r.transfers)
             /\ last' = [op |-> "open",
                         args |-> [enum |-> e.enum, devices |-> e.devices,
                                   languages |-> languages, claim |-> claim,
                                   io |-> io, opened |-> r.opened],
                         rts |-> <<>>, transfers |-> r.transfers,
                         count |-> 0, result |-> r.result]
             /\ command_count' = 0
             /\ UNCHANGED <<client_device, profile, calls, initial_count, trips, all_ok>>

NextOpen == Open \/ TakeResult

SpecOpen == Init /\ [][NextOpen]_vars

-----------------------------------------------------------------------------
(* The frame codec on its own: request_data's encoding of a request, and     *)
(* its decoding applied to the encoded frame.                                *)

\* a body of n bytes, no two neighbours equal
BodyOf(n) == [i \in 1..n |-> (7 * i + n) % Byte]

FrameBodies == {BodyOf(n) : n \in 0..MaxBodyLen}

FrameCommands ==
    {[family |-> "GetButtonStates", sub |-> 0],
     [family |-> "SetScribble", sub |-> 3]}

FrameIndices == {1, Byte, U16 - 1}

\* a frame is encoded as request_data encodes it, and decoded as
\* request_data decodes a reply
FrameRoundTrip ==
    /\ last = NoCall
    /\ \E command \in FrameCommands, body \in FrameBodies,
          command_index \in FrameIndices :
         LET frame == full_request(command, body, command_index)
         IN  last' = [op |-> "frame",
                      args |-> [command |-> command, body |-> body,
                                command_index |-> command_index,
                                frame |-> frame,
                                header |-> DecodeHeader(frame)],
                      rts |-> <<>>, transfers |-> <<>>,
                      count |-> command_count,
                      result |-> DecodeReply(profile, frame, command_index)]
    /\ UNCHANGED <<client_device, profile, phase, command_count, device_is_claimed, wire,
                   calls, initial_count, trips, all_ok>>

NextFrame == FrameRoundTrip \/ TakeResult

SpecFrame == Init /\ [][NextFrame]_vars

-----------------------------------------------------------------------------
(* The client: Client::new built it, Client::send is called on it. *)

\* the commands the client sends
GoXLRCommands == {"AssignFader", "SetVolume"}

\* Client::send
Send ==
    /\ last = NoCall
    /\ calls < MaxCalls
    /\ \E command \in GoXLRCommands, sent \in BOOLEAN,
          response \in SocketReads :
         LET r == send(client_device, command, sent, response)
         IN  /\ client_device' = r.device
             /\ last' = [op |-> "send",
                         args |-> [command |-> command, sent |-> sent,
                                   response |-> response,
                                   before |-> client_device],
                         rts |-> <<>>, transfers |-> r.socket,
                         count |-> command_count, result |-> r.result]
             /\ calls' = calls + 1
    /\ UNCHANGED <<profile, phase, command_count, device_is_claimed, wire,
                   initial_count, trips, all_ok>>

NextClient == Send \/ TakeResult

SpecClient == Init /\ [][NextClient]_vars

-----------------------------------------------------------------------------
(* Properties *)

\* the facade methods
FacadeOps ==
    {"set_fader", "set_volume", "set_channel_state", "set_button_states",
     "set_button_colours", "set_fader_display_mode", "set_fader_scribble",
     "set_routing", "set_microphone_type", "get_button_states"}

\* the round trips of the call whose result the caller holds
Trips == {last.rts[k] : k \in 1..Len(last.rts)}

\* the round trip's IN read delivered a whole reply header
HasHeader(rt) == rt.read = "Ok" /\ Len(rt.reply) >= 16

\* the fields of the reply header, read from the bytes on the wire
DeclaredLength(rt) == rt.reply[5] + 256 * rt.reply[6]

EchoedIndex(rt) == rt.reply[7] + 256 * rt.reply[8]

\* C1: a round trip whose reply header echoes a sequence number other than
\* the one sent in the request never returns the reply body as a success.
C1_MismatchIsFatal ==
    \A rt \in Trips :
        (HasHeader(rt) /\ EchoedIndex(rt) /= rt.index)
            => rt.outcome.kind /= "Ok"

\* C2: a facade method, whenever a round trip it issued failed with a
\* transport error, returns that same error and not success.
C2_ErrorsPropagate ==
    last.op \in FacadeOps =>
        \A rt \in Trips :
            rt.outcome.kind = "Err" => last.result = rt.outcome

\* C3: after N consecutive successful round trips the counter equals
\* (initial + N) mod 65536 (all_ok: every round trip made so far succeeded;
\* trips: their number), also when that carries it past 65535.
C3_CounterWraps ==
    all_ok => command_count = (initial_count + trips) % 65536

\* C3 witness: successful round trips have carried the counter past 65535.
C3_Wrapped ==
    /\ all_ok
    /\ trips >= 2
    /\ initial_count + trips >= 65536
    /\ command_count < initial_count

\* the kinds of the transfers of a round trip, as wire holds them
CommandOut == [dir |-> "OUT", request |-> 2]

ReplyIn == [dir |-> "IN", request |-> 3]

InterruptWait == [dir |-> "INT", request |-> 129]

\* C4: every call of set_microphone_type issues exactly two requests with
\* the SetMicrophoneType command id (0x80b000): first one with an all-zero
\* 8-byte body, then one with byte 0 = type, byte 6 = gain, the rest zero.
C4_TwoMicRequests ==
    last.op = "set_microphone_type" =>
        /\ Len(last.rts) = 2
        /\ \A k \in 1..Len(last.rts) :
             /\ last.rts[k].transfers /= <<>>
             /\ last.rts[k].transfers[1] = Xfer("OUT", 2, 24)
             /\ SubSeq(last.rts[k].frame, 1, 6) = <<0, 176, 128, 0, 8, 0>>
        /\ SubSeq(last.rts[1].frame, 17, 24) = <<0, 0, 0, 0, 0, 0, 0, 0>>
        /\ SubSeq(last.rts[2].frame, 17, 24)
             = <<last.args[1], 0, 0, 0, 0, 0, last.args[2], 0>>

\* What holds of set_microphone_type: a call that returns has issued the two
\* requests of C4, and a call that panics in the first request_data has
\* issued at most the reset request.
MicRequestsOfCallsThatReturn ==
    last.op = "set_microphone_type" =>
        IF last.result.kind = "Panic" /\ Len(last.rts) = 1
        THEN last.rts[1].frame = <<>>
             \/ SubSeq(last.rts[1].frame, 17, 24) = <<0, 0, 0, 0, 0, 0, 0, 0>>
        ELSE C4_TwoMicRequests

\* C5: the bring-up handshake (IN request 0 of 24 bytes, OUT request 1 of 0
\* bytes, IN request 3 of 1040 bytes) runs once, in that order, and is
\* complete before the first command transfer (request 2) of the connection.
C5_HandshakeFirst ==
    /\ (last.op = "from_device" /\ last.result.kind = "Ok") =>
           last.transfers = <<[dir |-> "IN", request |-> 0, len |-> 24],
                              [dir |-> "OUT", request |-> 1, len |-> 0],
                              [dir |-> "IN", request |-> 3, len |-> 1040]>>
    /\ (phase \in {"Ready", "Panicked"} \/ \E i \in 1..Len(wire) : wire[i] = CommandOut) =>
           /\ Len(wire) >= 3
           /\ wire[1] = [dir |-> "IN", request |-> 0]
           /\ wire[2] = [dir |-> "OUT", request |-> 1]
           /\ wire[3] = ReplyIn
           /\ \A i \in 4..Len(wire) : wire[i].request \notin {0, 1}

\* C5 witness: two facade calls have put command transfers on the wire.
C5_CommandsIssued ==
    /\ calls = 2
    /\ Cardinality({i \in 1..Len(wire) : wire[i] = CommandOut}) >= 2

\* C6 as claimed: between two command OUT transfers of a connection there is
\* an IN read of the reply, whatever the outcome of the first OUT transfer.
C6_ReadBeforeNextCommand ==
    \A i, j \in 1..Len(wire) :
        (i < j /\ wire[i] = CommandOut /\ wire[j] = CommandOut)
            => \E k \in (i + 1)..(j - 1) : wire[k] = ReplyIn

\* C6, amended: a round trip whose OUT transfer succeeded goes on to the
\* interrupt wait and then the IN read of 1040 bytes, whatever the interrupt
\* wait returned, before anything else is put on the wire; a round trip
\* whose OUT transfer failed performs no other transfer.
C6_ReadFollowsSuccessfulWrite ==
    /\ \A rt \in Trips :
         /\ rt.write = "Ok" =>
              /\ Kinds(rt.transfers) = <<CommandOut, InterruptWait, ReplyIn>>
              /\ rt.transfers[3].len = 1040
         /\ rt.write \in UsbErrors => Kinds(rt.transfers) = <<CommandOut>>
    /\ \A i \in 1..Len(wire) :
         wire[i] = InterruptWait =>
             /\ wire[i - 1] = CommandOut
             /\ i < Len(wire)
             /\ wire[i + 1] = ReplyIn

\* C6 witness: the second call's interrupt wait timed out and its IN read
\* was made all the same.
C6_ReadAfterTimeout ==
    /\ calls = 2
    /\ \E rt \in Trips :
         rt.write = "Ok" /\ rt.int = "Timeout" /\ rt.read = "Ok"

\* C7: a round trip whose interrupt wait failed or timed out is not
\* returned to the caller as a success.
C7_InterruptFailureSurfaces ==
    \A rt \in Trips : rt.int = "Timeout" => rt.outcome.kind /= "Ok"

\* C8: the body a round trip returns has the length the reply header
\* declares.
C8_BodyHasDeclaredLength ==
    \A rt \in Trips :
        rt.outcome.kind = "Ok" => Len(rt.outcome.body) = DeclaredLength(rt)

\* the body of the reply get_button_states got from its round trip
ButtonReplyBody == SubSeq(last.rts[1].reply, 17, Len(last.rts[1].reply))

GotButtonReply ==
    /\ last.op = "get_button_states"
    /\ last.rts[1].outcome.kind = "Ok"

\* C9 as claimed: on a reply body of 8 bytes (bitmask, then mixer levels)
\* get_button_states succeeds and returns body bytes 4..7 as mixer levels.
C9_MixersFollowBitmask ==
    (GotButtonReply /\ Len(ButtonReplyBody) = 8) =>
        /\ last.result.kind = "Ok"
        /\ last.result.body.mixers = SubSeq(ButtonReplyBody, 5, 8)

\* C9, amended: on a reply body of 12 bytes or more get_button_states
\* succeeds and returns body bytes 8..11 as mixer levels; on a shorter body
\* (one of 8 bytes too) it panics.
C9_MixersAreBytes8To11 ==
    GotButtonReply =>
        IF Len(ButtonReplyBody) >= 12
        THEN /\ last.result.kind = "Ok"
             /\ last.result.body.mixers = SubSeq(ButtonReplyBody, 9, 12)
        ELSE last.result.kind = "Panic"

\* C9 witness: a 12-byte reply was decoded.
C9_Decoded12 ==
    /\ GotButtonReply
    /\ Len(ButtonReplyBody) = 12
    /\ last.result.kind = "Ok"
    /\ last.result.body.mixers = <<21, 22, 23, 24>>

\* bit i (0..31) of the little-endian bitmask in the first 4 body bytes
MaskBit(i) == (ButtonReplyBody[(i \div 8) + 1] \div (2 ^ (i % 8))) % 2 = 1

\* C10: the pressed set get_button_states returns holds, for each position
\* 0..23 set in the bitmask, the one button assigned to it, and nothing
\* else: bits 24..31 add no button.
C10_PressedMatchesMask ==
    /\ \A i \in 0..23 : Cardinality({b \in Buttons : ButtonBit[b] = i}) = 1
    /\ (GotButtonReply /\ last.result.kind = "Ok") =>
         LET pressed == last.result.body.pressed
         IN  /\ pressed \subseteq Buttons
             /\ \A i \in 0..23 :
                  MaskBit(i) <=> \E b \in pressed : ButtonBit[b] = i
             /\ Cardinality(pressed)
                  = Cardinality({i \in 0..23 : MaskBit(i)})

\* C10 witness: a bitmask with bits 24..31 set and none of 0..23 gave the
\* empty set, and one with every bit set gave all 24 buttons.
C10_HighBitsIgnored ==
    /\ GotButtonReply
    /\ last.result.kind = "Ok"
    /\ \/ /\ \E i \in 24..31 : MaskBit(i)
          /\ last.result.body.pressed = {}
       \/ /\ \A i \in 0..31 : MaskBit(i)
          /\ Cardinality(last.result.body.pressed) = 24

\* the sub-identifier of a command, as a number
SubIdOf(command) ==
    IF command.family = "SystemInfo"
    THEN (IF command.sub = "FirmwareVersion" THEN 2 ELSE 1)
    ELSE command.sub

\* C11: command_id gives every command an id whose low 12 bits are its
\* sub-identifier (0 where it has none) and whose upper bits depend on the
\* family only (0 for SystemInfo); no two commands get the same id.
C11_CommandIdPacks ==
    last.op = "command_id" =>
        LET id == last.result.body
        IN  /\ id % 4096 = SubIdOf(last.args)
            /\ last.args.family = "SystemInfo" => id = SubIdOf(last.args)
            /\ \A other \in Commands :
                 /\ other.family = last.args.family
                      => command_id(other) \div 4096 = id \div 4096
                 /\ (other.family /= last.args.family
                     \/ other.sub /= last.args.sub)
                      => command_id(other) /= id

\* C11 witness: the id of SetFader with the largest fader value.
C11_LookedUp ==
    /\ last.op = "command_id"
    /\ last.args.family = "SetFader"
    /\ last.args.sub = MaxSubId
    /\ last.result.body = 2053 * 4096 + MaxSubId


\* a device whose descriptor names a GoXLR, full-size or mini
IsGoXLR(device) ==
    /\ device.desc = "Ok"
    /\ device.vid = 4640
    /\ device.pid \in {36832, 36836}

\* the devices of the enumeration that are GoXLRs
MatchingIndices(devices) == {i \in 1..Len(devices) : IsGoXLR(devices[i])}

\* the matching devices that device.open() succeeds on
Openable(devices) == {i \in MatchingIndices(devices) : devices[i].open = "Ok"}

\* the largest member of a non-empty set of numbers
Largest(S) == CHOOSE m \in S : \A j \in S : j <= m

\* the members of a set of numbers, in increasing order
RECURSIVE Ascending(_)
Ascending(S) ==
    IF S = {} THEN <<>>
    ELSE LET m == CHOOSE x \in S : \A j \in S : x <= j
         IN  <<m>> \o Ascending(S \ {m})

\* open() enumerated the attached devices and none of them was opened
NoneOpened ==
    /\ last.op = "open"
    /\ last.args.enum = "Ok"
    /\ Openable(last.args.devices) = {}

\* C12: whenever discovery fails, because no attached device matches or
\* because devices match and none of them can be opened, open() fails with
\* DeviceNotFound.
C12_DiscoveryFailureIsDeviceNotFound ==
    NoneOpened => last.result = Err("DeviceNotFound")

\* C12, as the code has it: open() fails with DeviceNotFound when the
\* enumeration succeeds and no attached device matches; when devices match
\* and none of them can be opened, it fails with the error of the open
\* attempt on the last of them.
C12_NoMatchIsDeviceNotFound ==
    NoneOpened =>
        LET devices == last.args.devices
            M == MatchingIndices(devices)
        IN  /\ phase = "Failed"
            /\ M = {} => last.result = Err("DeviceNotFound")
            /\ M /= {} =>
                 last.result = Err(ConnectErrorFrom(devices[Largest(M)].open))

\* C12 witness: two devices match, neither can be opened, and open() fails
\* with the error of the second
C12_UnopenableMatches ==
    /\ NoneOpened
    /\ Len(last.args.devices) = 2
    /\ MatchingIndices(last.args.devices) = {1, 2}
    /\ last.args.devices[1].open = "Timeout"
    /\ last.args.devices[2].open = "Pipe"
    /\ last.result = Err("UsbError(Pipe)")

\* from_device was called and got no usable language list
NoLanguageList ==
    /\ last.op = "from_device"
    /\ (last.args.languages.kind = "Err" \/ last.args.languages.langs = <<>>)

\* C13: every failure to obtain a usable language list, the language read
\* returning an error or returning an empty list, makes from_device fail
\* with DeviceNotGoXLR, and no handshake transfer is performed.
C13_NoLanguagesIsDeviceNotGoXLR ==
    NoLanguageList =>
        /\ last.result = Err("DeviceNotGoXLR")
        /\ wire = <<>>

\* C13, as the code has it: an empty language list makes from_device fail
\* with DeviceNotGoXLR, a failed language read makes it fail with the error
\* of the read; in both cases no handshake transfer is performed.
C13_EmptyListIsDeviceNotGoXLR ==
    NoLanguageList =>
        /\ phase = "Failed"
        /\ wire = <<>>
        /\ last.transfers = <<>>
        /\ last.args.languages.kind = "Ok" =>
             last.result = Err("DeviceNotGoXLR")
        /\ last.args.languages.kind = "Err" =>
             /\ last.result.kind = "Err"
             /\ last.result.err /= "DeviceNotGoXLR"
             /\ \E e \in UsbErrors :
                  /\ last.args.languages.err = e
                  /\ last.result.err = ConnectErrorFrom(e)

\* C13 witness: the language read timed out, from_device failed with the
\* timeout and moved nothing over the wire
C13_LanguageReadFailed ==
    /\ last.op = "from_device"
    /\ last.args.languages.kind = "Err"
    /\ last.args.languages.err = "Timeout"
    /\ last.result = Err("UsbError(Timeout)")
    /\ phase = "Failed"
    /\ wire = <<>>

\* the transfers a round trip performs, given the outcome of each: none
\* when it stopped before the OUT transfer, the OUT transfer alone when
\* that failed, else the OUT transfer, the interrupt read and the IN read
TransfersExpected(rt) ==
    IF rt.write = "None" THEN <<>>
    ELSE IF rt.write /= "Ok" THEN <<Xfer("OUT", 2, Len(rt.frame))>>
    ELSE <<Xfer("OUT", 2, Len(rt.frame)), Xfer("INT", 129, 6),
           Xfer("IN", 3, 1040)>>

\* C14: a failure to claim interface 0 never fails the connection:
\* from_device runs the handshake and returns as it does when the claim
\* succeeds, a handshake without error gives a Ready connection whose
\* device_is_claimed is the outcome of the claim, and the transfers of
\* every later operation depend on the device's answers only.
C14_ClaimFailureTolerated ==
    /\ (last.op = "from_device" /\ ~NoLanguageList) =>
          LET claimed == from_device(last.args.languages, TRUE, last.args.io)
          IN  /\ last.result = claimed.result
              /\ last.transfers = claimed.transfers
              /\ device_is_claimed = last.args.claim
              /\ (\A k \in 1..3 : last.args.io[k] = "Ok") =>
                    /\ phase = "Ready"
                    /\ last.result.kind = "Ok"
                    /\ wire = Kinds(Handshake)
    /\ last.op \in FacadeOps =>
          /\ last.transfers = TransfersOf(last.rts)
          /\ \A k \in 1..Len(last.rts) :
               last.rts[k].transfers = TransfersExpected(last.rts[k])

\* C14 witness: a connection whose claim failed is Ready, and a facade
\* method has made a whole round trip on it
C14_UnclaimedInUse ==
    /\ phase = "Ready"
    /\ ~device_is_claimed
    /\ last.op = "set_fader"
    /\ last.result.kind = "Ok"
    /\ Len(last.transfers) = 3
    /\ wire = Kinds(Handshake) \o Kinds(last.transfers)

\* byte k (from 0) of the little-endian encoding of v
LEByte(v, k) == (v \div (256 ^ k)) % 256

\* C15: the encoded request frame is 16 + len(body) bytes: the command id
\* as a little-endian u32 at offset 0, the body length as a little-endian
\* u16 at offset 4, the sequence number as a little-endian u16 at offset 6,
\* zeros at offsets 8..15, then the body; decoding the frame as a reply
\* gives back the body length, the sequence number and the body.
C15_FrameRoundTrip ==
    last.op = "frame" =>
        LET frame == last.args.frame
            body == last.args.body
            id == command_id(last.args.command)
        IN  /\ Len(frame) = 16 + Len(body)
            /\ \A k \in 0..3 : frame[1 + k] = LEByte(id, k)
            /\ \A k \in 0..1 : frame[5 + k] = LEByte(Len(body), k)
            /\ \A k \in 0..1 : frame[7 + k] = LEByte(last.args.command_index, k)
            /\ \A k \in 9..16 : frame[k] = 0
            /\ \A k \in 1..Len(body) : frame[16 + k] = body[k]
            /\ last.args.header.length = Len(body)
            /\ last.args.header.index = last.args.command_index
            /\ last.result = Ok(body)

\* C15 witness: the longest body, under the largest sequence number, went
\* through the codec
C15_LongestBodyFramed ==
    /\ last.op = "frame"
    /\ Len(last.args.body) = MaxBodyLen
    /\ last.args.command_index = U16 - 1
    /\ Len(last.args.frame) = 16 + MaxBodyLen
    /\ last.result.kind = "Ok"
    /\ Len(last.result.body) = MaxBodyLen

\* how many of the transfers are of the kind `kind`
RECURSIVE CountOf(_, _)
CountOf(transfers, kind) ==
    IF transfers = <<>> THEN 0
    ELSE (IF Kind(transfers[1]) = kind THEN 1 ELSE 0)
         + CountOf(Tail(transfers), kind)

\* C16: every call of request_data advances the sequence counter by exactly
\* one and never rolls it back, and performs at most one OUT command
\* transfer and at most one IN reply read; the k-th request issued on a
\* connection, failed ones counted, carries k mod 65536 on the wire (trips:
\* the calls of request_data so far; initial_count: the counter the
\* connection started from, 0 for one from_device has just returned).
C16_EveryCallAdvancesCounter ==
    /\ command_count = (initial_count + trips) % U16
    /\ last.op \in FacadeOps =>
         \A k \in 1..Len(last.rts) :
            LET rt == last.rts[k]
                n == trips - Len(last.rts) + k
            IN  /\ rt.count = (initial_count + n) % U16
                /\ Len(rt.frame) >= 16
                /\ DecodeHeader(rt.frame).index = (initial_count + n) % U16
                /\ CountOf(rt.transfers, CommandOut) = 1
                /\ CountOf(rt.transfers, ReplyIn) <= 1

\* the handshake transfers that fail, for the device from_device met
FailedSteps == {k \in 1..3 : last.args.io[k] /= "Ok"}

\* C17: if a handshake transfer fails, from_device returns an error, makes
\* none of the handshake transfers after the failed one and yields no
\* connection; no command is ever issued where the handshake did not
\* complete.
C17_FailedHandshakeIsFinal ==
    /\ (last.op = "from_device" /\ ~NoLanguageList /\ FailedSteps /= {}) =>
          LET first == CHOOSE k \in FailedSteps : \A j \in FailedSteps : k <= j
          IN  /\ last.result = Err(ConnectErrorFrom(last.args.io[first]))
              /\ Len(last.transfers) = first
              /\ wire = Kinds(SubSeq(Handshake, 1, first))
              /\ phase = "Failed"
    /\ phase = "Failed" =>
          /\ calls = 0
          /\ trips = 0
          /\ \A k \in 1..Len(wire) : wire[k] /= CommandOut
    /\ calls > 0 =>
          /\ Len(wire) >= 3
          /\ SubSeq(wire, 1, 3) = Kinds(Handshake)

\* C17 witness: the second handshake transfer failed; the third was not
\* made and from_device returned the error
C17_SecondStepFailed ==
    /\ last.op = "from_device"
    /\ ~NoLanguageList
    /\ last.args.io = <<"Ok", "Pipe", "Ok">>
    /\ last.result = Err("UsbError(Pipe)")
    /\ Len(wire) = 2
    /\ phase = "Failed"

\* C18: for every reply buffer the IN read delivers, one shorter than the
\* 16-byte header included, request_data returns a reply body or an error
\* to its caller.
C18_ReplyNeverAborts ==
    last.op \in FacadeOps =>
        \A rt \in Trips :
            rt.read = "Ok" => rt.outcome.kind \in {"Ok", "Err"}

\* the matching devices open() tries: those with no openable matching
\* device before them
Tried(devices) ==
    {i \in MatchingIndices(devices) :
        \A j \in Openable(devices) : i <= j}

\* C19: open() tries the matching devices in enumeration order, skipping
\* those that cannot be opened; as soon as one opens, open() returns the
\* result of its bring-up and opens no later device; when none opened, the
\* error is that of the last failed open attempt, or DeviceNotFound if
\* there was none.
C19_FirstOpenableWins ==
    (last.op = "open" /\ last.args.enum = "Ok") =>
        LET devices == last.args.devices
            M == MatchingIndices(devices)
            bringup == from_device(last.args.languages, last.args.claim,
                                   last.args.io)
        IN  /\ last.args.opened = Ascending(Tried(devices))
            /\ Openable(devices) /= {} =>
                 /\ last.result = bringup.result
                 /\ last.transfers = bringup.transfers
                 /\ device_is_claimed = bringup.claimed
                 /\ phase = IF bringup.result.kind = "Ok" THEN "Ready"
                            ELSE "Failed"
            /\ Openable(devices) = {} =>
                 /\ last.transfers = <<>>
                 /\ last.result =
                      IF M = {} THEN Err("DeviceNotFound")
                      ELSE Err(ConnectErrorFrom(devices[Largest(M)].open))

\* C19 witness: the first matching device could not be opened, the second
\* opened and its bring-up went through
C19_SecondDeviceOpened ==
    /\ last.op = "open"
    /\ last.args.enum = "Ok"
    /\ Len(last.args.devices) = 2
    /\ last.args.devices[1].open = "Timeout"
    /\ last.args.opened = <<1, 2>>
    /\ last.result.kind = "Ok"
    /\ phase = "Ready"
    /\ wire = Kinds(Handshake)

\* C20: Client::send performs one socket send followed by at most one
\* socket read, none when the send fails; the cached status is replaced
\* only by a response Ok(Some(status)); send returns an error exactly when
\* the response is Error or the send or the read failed.
C20_OnlyOkSomeReplacesStatus ==
    last.op = "send" =>
        LET response == last.args.response
            answered == last.args.sent /\ response.kind \in {"OkSome", "OkNone"}
        IN  /\ last.transfers = IF last.args.sent THEN <<"send", "read">>
                                ELSE <<"send">>
            /\ Client_device(client_device) =
                 IF last.args.sent /\ response.kind = "OkSome"
                 THEN response.status ELSE last.args.before
            /\ last.result.kind = IF answered THEN "Ok" ELSE "Err"
            /\ (last.args.sent /\ response.kind = "Error") =>
                 last.result = Err(response.error)

\* C20 witness: the client holds a status from an earlier response, and a
\* response Ok(None) has left it in place
C20_StatusKeptOnNone ==
    /\ last.op = "send"
    /\ last.args.sent
    /\ last.args.response.kind = "OkNone"
    /\ last.args.before = "mini"
    /\ client_device = "mini"
    /\ last.result.kind = "Ok"

=============================================================================
